---- MODULE Spec2Model ----
(***************************************************************************)
(* Model of the jeepgame multiplayer server (server/GameRoom.ts,           *)
(* server/index.ts) and of the client's message dispatch                   *)
(* (network/SocketClient.ts, scenes/GameScene.ts).                         *)
(*                                                                         *)
(* RoomSpec drives the GameRoom class through its public methods.          *)
(* Spec drives the whole server: connection, message and disconnect        *)
(* handlers and the two timers, with the messages it emits.                *)
(* LiveSpec is the server with two sockets and fair timers.                *)
(* NetSpec adds the messages in flight and the clients' dispatch.          *)
(* GhostSpec is one remote ghost: snapshots and render frames.             *)
(* VehicleSpec is the local vehicle: physics steps and the frame's wrap.   *)
(* SeamSpec applies the client's four seam tests to one pair of positions. *)
(* LapSpec is the scene's frame with the lap timer.                        *)
(* TerrainSpec is the terrain of a seed and the ground found under an x.   *)
(***************************************************************************)
EXTENDS Integers, Sequences, FiniteSets, TLC

(***************************************************************************)
(* Bounds of the model.                                                    *)
(***************************************************************************)
\* number of addPlayer calls in a run of RoomSpec (more than one palette)
MaxAdds == 10
\* RoomSpec: the clock runs over the instants k * staleTimeout + o (ms),
\* k <= MaxRoomEpoch, o <= MaxOffset
MaxRoomEpoch == 1
MaxOffset == 1
\* Spec, NetSpec: the clock is read at the instants k * SweepInterval (ms),
\* k <= MaxEpoch
MaxEpoch == 4
\* messages in flight to one client (NetSpec)
MaxChan == 2
\* sample positions are taken up to this many steps of 2 to either side of
\* the seam and of the half circumference
SeamNear == 1
\* GhostVehicle.interpolationTime is followed up to this value (ms)
MaxInterp == 200

(***************************************************************************)
(* Program constants.                                                      *)
(***************************************************************************)
\* shared/types.ts: TERRAIN_SEED
TERRAIN_SEED == 12345
\* GameRoom.cleanupStalePlayers: const staleTimeout = 30000
staleTimeout == 30000
\* index.ts: period of the cleanup setInterval
SweepInterval == 10000
\* GameRoom.COLORS
COLORS ==
  << 15158332, 3447003, 3066993, 15965202,
     10181046, 1752220, 15105570, 15844367 >>

\* the fields of a position message / of the state argument of updatePlayerState
PositionFields ==
  {"x", "y", "angle", "frontWheelAngle", "rearWheelAngle", "velocityX", "velocityY"}

\* position payloads the clients send; no field of one equals the same field
\* of the other or of the spawn state
Snapshots ==
  { [x |-> 150, y |-> 310, angle |-> 1, frontWheelAngle |-> 2,
     rearWheelAngle |-> 3, velocityX |-> 4, velocityY |-> 5],
    [x |-> 9900, y |-> 280, angle |-> -1, frontWheelAngle |-> 7,
     rearWheelAngle |-> 8, velocityX |-> -4, velocityY |-> -5] }

\* ids used for direct calls of the GameRoom methods (RoomSpec)
RoomIds == {"a", "b"}

\* socket ids, in the order in which the connections are made
SocketIds == <<"s1", "s2", "s3">>

Instants(period, epochs, offsets) ==
  {k * period + o : k \in 0..epochs, o \in 0..offsets}

VARIABLES
  players,          \* GameRoom.players: the Map, as the sequence of its values in insertion order
  nextColorIndex,   \* GameRoom.nextColorIndex
  now,              \* Date.now()
  staleIds,         \* the list returned by the last cleanupStalePlayers()
  assigned,         \* history: the colour stored by each addPlayer call, in call order
  lastEvent,        \* history: the call or handler that ran last, with its arguments
  sweepDue,         \* the instant at which the cleanup timer fires next
  conn,             \* per socket id: "idle" (not yet connected), "open", "lost", "closed"
  emitted,          \* the messages emitted by the handler that ran last, with their recipients
  chan,             \* per socket id: the messages in flight to that client, oldest first
  client,           \* per socket id: the state of that client's SocketClient and GameScene
  ghost,            \* one GhostVehicle: its fields and what its last update() drew
  scene,            \* one GameScene with its Vehicle: the three bodies and the camera's memory
  seam,             \* a pair of positions and what each seam test of the client says of it
  leaves,           \* history: per socket id, the number of playerLeft messages emitted for it
  elapsed,          \* history: the frame time rendered since the ghost's latest snapshot
  terrain           \* one Terrain: its seed, its points and its collision segments

roomVars == <<players, nextColorIndex>>
serverVars == <<sweepDue, conn, emitted, leaves>>
netVars == <<chan, client>>
sceneVars == <<ghost, scene, seam, elapsed, terrain>>
\* everything the server and the network hold
serverState == <<players, nextColorIndex, now, staleIds, assigned,
                 sweepDue, conn, emitted, chan, client, leaves>>
vars == <<players, nextColorIndex, now, staleIds, assigned, lastEvent,
          sweepDue, conn, emitted, chan, client, ghost, scene, seam,
          leaves, elapsed, terrain>>

(***************************************************************************)
(* JavaScript Map, kept as the sequence of its values in insertion order.  *)
(***************************************************************************)
MapKeys(m) == {m[k].id : k \in DOMAIN m}

MapHas(m, id) == id \in MapKeys(m)

MapIndex(m, id) == CHOOSE k \in DOMAIN m : m[k].id = id

MapGet(m, id) == m[MapIndex(m, id)]

\* Map.set: an existing key keeps its place, a new key goes last
MapSet(m, id, v) ==
  IF MapHas(m, id) THEN [m EXCEPT ![MapIndex(m, id)] = v] ELSE Append(m, v)

\* Map.delete
MapDelete(m, id) == SelectSeq(m, LAMBDA p : p.id # id)

(***************************************************************************)
(* GameRoom                                                                *)
(***************************************************************************)
\* the palette entry for a value of nextColorIndex (COLORS is 1-based here)
PaletteColorBySize(n) == COLORS[(Len(players) % Len(COLORS)) + 1]

PaletteColor(n) == COLORS[(n % Len(COLORS)) + 1]

\* the Player object built by addPlayer
NewPlayer(id, color, t) ==
  [ id |-> id,
    state |-> [ id |-> id, x |-> 200, y |-> 300, angle |-> 0,
                frontWheelAngle |-> 0, rearWheelAngle |-> 0,
                velocityX |-> 0, velocityY |-> 0, color |-> color ],
    lastUpdate |-> t ]

addPlayer(id) ==
  /\ players' = MapSet(players, id, NewPlayer(id, PaletteColor(nextColorIndex), now))
  /\ nextColorIndex' = nextColorIndex + 1

removePlayer(id) ==
  /\ players' = MapDelete(players, id)
  /\ UNCHANGED nextColorIndex

\* { ...state, id, color: player.state.color }
SpreadKeepingPrevious(state, id, player) ==
  [f \in DOMAIN player.state |->
     IF f = "id" THEN id
     ELSE IF f = "color" THEN player.state.color
     ELSE IF f \in {"x", "y", "angle"} THEN state[f]
     ELSE player.state[f]]

SpreadState(state, id, player) ==
  [f \in DOMAIN state \cup {"id", "color"} |->
     IF f = "id" THEN id
     ELSE IF f = "color" THEN player.state.color
     ELSE state[f]]

\* the map after updatePlayerState(id, state) at time t
UpdatedPlayersNoTouch(m, id, state, t) ==
  IF MapHas(m, id)
    THEN MapSet(m, id, [MapGet(m, id) EXCEPT
                          !.state = SpreadState(state, id, MapGet(m, id))])
    ELSE m

UpsertedPlayers(m, id, state, t) ==
  IF MapHas(m, id)
    THEN MapSet(m, id, [MapGet(m, id) EXCEPT
                          !.state = SpreadState(state, id, MapGet(m, id)),
                          !.lastUpdate = t])
    ELSE Append(m, [id |-> id,
                    state |-> SpreadState(state, id, NewPlayer(id, COLORS[1], t)),
                    lastUpdate |-> t])

UpdatedPlayers(m, id, state, t) ==
  IF MapHas(m, id)
    THEN MapSet(m, id, [MapGet(m, id) EXCEPT
                          !.state = SpreadState(state, id, MapGet(m, id)),
                          !.lastUpdate = t])
    ELSE m

updatePlayerState(id, state) ==
  /\ players' = UpdatedPlayers(players, id, state, now)
  /\ UNCHANGED nextColorIndex

getPlayer(m, id) == MapGet(m, id)

getAllPlayers(m) == [k \in DOMAIN m |-> m[k].state]

getTerrainSeed == TERRAIN_SEED

\* the test of the first loop of cleanupStalePlayers
IsStaleReversed(player, t) == player.lastUpdate - t > staleTimeout

IsStaleInclusive(player, t) == t - player.lastUpdate >= staleTimeout

IsStale(player, t) == t - player.lastUpdate > staleTimeout

\* first loop: the ids of the stale entries, in Map order
CollectStale(m, t) ==
  LET stale == SelectSeq(m, LAMBDA p : IsStale(p, t))
  IN  [k \in DOMAIN stale |-> stale[k].id]

\* second loop: removePlayer for each collected id
RECURSIVE RemoveEach(_, _)
RemoveEach(m, ids) ==
  IF ids = <<>> THEN m ELSE RemoveEach(MapDelete(m, Head(ids)), Tail(ids))

cleanupStalePlayers ==
  /\ staleIds' = CollectStale(players, now)
  /\ players' = RemoveEach(players, staleIds')
  /\ UNCHANGED nextColorIndex

(***************************************************************************)
(* The state after construction: new GameRoom(), the timers armed, no      *)
(* socket connected; on each client, new SocketClient() and an empty       *)
(* GameScene.ghostVehicles.                                                *)
(***************************************************************************)
SocketSet == {SocketIds[k] : k \in DOMAIN SocketIds}

\* welcome: the parameters with which GameScene's welcome callback ran, if it ran
\* GameScene.create(): what getState() of the local vehicle returns while it
\* rests at the spawn position
SpawnState ==
  [x |-> 150, y |-> 370, angle |-> 0, frontWheelAngle |-> 0,
   rearWheelAngle |-> 0, velocityX |-> 0, velocityY |-> 0]

\* welcome: the parameters with which GameScene's welcome callback ran, if it ran
\* vehicle: the physics state of the scene's own vehicle, as getState() reads it
\* created, left: history, the ids for which this client ever created a ghost
\* and the ids whose playerLeft it has processed
NewClient ==
  [ playerId |-> "", terrainSeed |-> TERRAIN_SEED,
    welcome |-> <<>>, ghostVehicles |-> {}, vehicle |-> SpawnState,
    created |-> {}, left |-> {} ]

\* the server and the clients' sockets at start
ServerInit ==
  /\ players = <<>>
  /\ nextColorIndex = 0
  /\ now = 0
  /\ staleIds = <<>>
  /\ assigned = <<>>
  /\ lastEvent = [type |-> "start"]
  /\ sweepDue = SweepInterval
  /\ conn = [i \in SocketSet |-> "idle"]
  /\ emitted = <<>>
  /\ chan = [i \in SocketSet |-> <<>>]
  /\ client = [i \in SocketSet |-> NewClient]
  /\ leaves = [i \in SocketSet |-> 0]

\* no ghost, no scene and no pair of positions under study
Init ==
  /\ ServerInit
  /\ ghost = <<>>
  /\ scene = <<>>
  /\ seam = <<>>
  /\ elapsed = 0
  /\ terrain = <<>>

(***************************************************************************)
(* RoomSpec: the GameRoom methods called directly, in any order, on any    *)
(* ids, with the clock advancing between calls.                            *)
(***************************************************************************)
AddPlayerCall(id) ==
  /\ Len(assigned) < MaxAdds
  /\ addPlayer(id)
  /\ assigned' = Append(assigned, getPlayer(players', id).state.color)
  /\ lastEvent' = [type |-> "addPlayer", id |-> id]
  /\ UNCHANGED <<now, staleIds, serverVars, netVars, sceneVars>>

RemovePlayerCall(id) ==
  /\ removePlayer(id)
  /\ lastEvent' = [type |-> "removePlayer", id |-> id]
  /\ UNCHANGED <<now, staleIds, assigned, serverVars, netVars, sceneVars>>

UpdatePlayerStateCall(id, state) ==
  /\ updatePlayerState(id, state)
  /\ lastEvent' = [type |-> "updatePlayerState", id |-> id, state |-> state]
  /\ UNCHANGED <<now, staleIds, assigned, serverVars, netVars, sceneVars>>

CleanupCall ==
  /\ cleanupStalePlayers
  /\ lastEvent' = [type |-> "cleanupStalePlayers"]
  /\ UNCHANGED <<now, assigned, serverVars, netVars, sceneVars>>

\* time passes between two calls
ClockAdvance ==
  /\ \E t \in Instants(staleTimeout, MaxRoomEpoch, MaxOffset) : t > now /\ now' = t
  /\ lastEvent' = [type |-> "clock"]
  /\ UNCHANGED <<players, nextColorIndex, staleIds, assigned, serverVars, netVars, sceneVars>>

RoomNext ==
  \/ \E id \in RoomIds : AddPlayerCall(id)
  \/ \E id \in RoomIds : RemovePlayerCall(id)
  \/ \E id \in RoomIds, state \in Snapshots : UpdatePlayerStateCall(id, state)
  \/ CleanupCall
  \/ ClockAdvance

RoomSpec == Init /\ [][RoomNext]_vars

(***************************************************************************)
(* server/index.ts: the connection, message and disconnect handlers and    *)
(* the two timers.  Each handler runs to completion on the event loop, so  *)
(* each is one step.  A socket is "open" once its connection handler has   *)
(* run, "lost" when its peer has gone silent without a close event ever    *)
(* reaching the server, and "closed" once its disconnect handler has run.  *)
(***************************************************************************)
\* the sockets of the namespace: io.emit reaches each of them
Connected(c) == {i \in SocketSet : c[i] \in {"open", "lost"}}

WelcomeMessage(id, seed, color) ==
  [type |-> "welcome", id |-> id, terrainSeed |-> seed, color |-> color]

JoinMessage(id) == [type |-> "playerJoined", id |-> id]

LeaveMessage(id) == [type |-> "playerLeft", id |-> id]

PlayersMessage(list) == [type |-> "players", players |-> list]

\* an emission: the message and the sockets it is sent to
Emit(to, msg) == [to |-> to, msg |-> msg]

\* socket.broadcast.emit of socket i: every socket of the namespace but i
BroadcastIncludingSelf(c, i) == Connected(c) \cup {i}

BroadcastFrom(c, i) == Connected(c) \ {i}

\* io.on('connection'): the sockets connect in the order of SocketIds
Connection(i) ==
  /\ conn[i] = "idle"
  /\ \A k \in DOMAIN SocketIds :
       SocketIds[k] = i => \A j \in 1..(k - 1) : conn[SocketIds[j]] # "idle"
  /\ addPlayer(i)
  /\ LET player == getPlayer(players', i)
     IN  /\ emitted' =
               << Emit({i}, WelcomeMessage(i, getTerrainSeed, player.state.color)),
                  Emit(BroadcastFrom(conn, i), JoinMessage(i)) >>
         /\ assigned' = Append(assigned, player.state.color)
  /\ conn' = [conn EXCEPT ![i] = "open"]
  /\ lastEvent' = [type |-> "connection", id |-> i]
  /\ UNCHANGED <<now, staleIds, sweepDue>>

\* socket.on('message') for a position message of socket i
Message(i, state) ==
  /\ conn[i] = "open"
  /\ updatePlayerState(i, state)
  /\ emitted' = <<>>
  /\ lastEvent' = [type |-> "message", id |-> i, state |-> state]
  /\ UNCHANGED <<now, staleIds, assigned, sweepDue, conn>>

\* socket.on('disconnect'): the socket has left the namespace when it runs
DisconnectKeepingPlayer(i) ==
  /\ conn[i] = "open"
  /\ UNCHANGED <<players, nextColorIndex>>
  /\ conn' = [conn EXCEPT ![i] = "closed"]
  /\ emitted' = << Emit(Connected(conn'), LeaveMessage(i)) >>
  /\ lastEvent' = [type |-> "disconnect", id |-> i]
  /\ UNCHANGED <<now, staleIds, assigned, sweepDue>>

Disconnect(i) ==
  /\ conn[i] = "open"
  /\ removePlayer(i)
  /\ conn' = [conn EXCEPT ![i] = "closed"]
  /\ emitted' = << Emit(Connected(conn'), LeaveMessage(i)) >>
  /\ lastEvent' = [type |-> "disconnect", id |-> i]
  /\ UNCHANGED <<now, staleIds, assigned, sweepDue>>

\* the peer of socket i goes silent and no close event will ever be delivered
ConnectionLost(i) ==
  /\ conn[i] = "open"
  /\ conn' = [conn EXCEPT ![i] = "lost"]
  /\ emitted' = <<>>
  /\ lastEvent' = [type |-> "lost", id |-> i]
  /\ UNCHANGED <<players, nextColorIndex, now, staleIds, assigned, sweepDue>>

\* the broadcast timer (setInterval, 50 ms); its period is far below the
\* resolution of the clock of the model, so it may fire at any instant
BroadcastTimerUnguarded ==
  /\ emitted' = << Emit(Connected(conn), PlayersMessage(getAllPlayers(players))) >>
  /\ lastEvent' = [type |-> "broadcast"]
  /\ UNCHANGED <<players, nextColorIndex, now, staleIds, assigned, sweepDue, conn>>

BroadcastTimer ==
  /\ LET list == getAllPlayers(players)
     IN  emitted' = IF Len(list) > 0
                      THEN << Emit(Connected(conn), PlayersMessage(list)) >>
                      ELSE <<>>
  /\ lastEvent' = [type |-> "broadcast"]
  /\ UNCHANGED <<players, nextColorIndex, now, staleIds, assigned, sweepDue, conn>>

\* the cleanup timer (setInterval, 10000 ms): fires when due
CleanupTimer ==
  /\ now = sweepDue
  /\ cleanupStalePlayers
  /\ emitted' = [k \in DOMAIN staleIds' |->
                   Emit(Connected(conn), LeaveMessage(staleIds'[k]))]
  /\ sweepDue' = sweepDue + SweepInterval
  /\ lastEvent' = [type |-> "cleanup"]
  /\ UNCHANGED <<now, assigned, conn>>

\* time passes, but not beyond the instant at which the cleanup timer is due.
\* The clock is read at the multiples of the timer's period P: an entry last
\* updated anywhere in [k * P, (k + 1) * P) is removed by the same firing of
\* the timer, the one at (k + 4) * P, as an entry last updated at k * P.
Tick ==
  /\ \E t \in Instants(SweepInterval, MaxEpoch, 0) :
       /\ t > now
       /\ t <= sweepDue
       /\ now' = t
  /\ emitted' = <<>>
  /\ lastEvent' = [type |-> "tick"]
  /\ UNCHANGED <<players, nextColorIndex, staleIds, assigned, sweepDue, conn>>

\* Spec: the server alone; what happens to the emitted messages on the way
\* to the clients is left out
\* the count of playerLeft messages per id, after the emissions em
LeavesAfter(em) ==
  [i \in SocketSet |->
     leaves[i] + Cardinality({k \in DOMAIN em :
                               em[k].msg.type = "playerLeft" /\ em[k].msg.id = i})]

NoNet ==
  /\ leaves' = LeavesAfter(emitted')
  /\ UNCHANGED <<netVars, sceneVars>>

Next ==
  \/ \E i \in SocketSet : Connection(i) /\ NoNet
  \/ \E i \in SocketSet, state \in Snapshots : Message(i, state) /\ NoNet
  \/ \E i \in SocketSet : Disconnect(i) /\ NoNet
  \/ \E i \in SocketSet : ConnectionLost(i) /\ NoNet
  \/ BroadcastTimer /\ NoNet
  \/ CleanupTimer /\ NoNet
  \/ Tick /\ NoNet

Spec == Init /\ [][Next]_vars

\* LiveSpec: the server with two sockets.  Time does not stop while the
\* clock has an instant left, and a timer that is due fires.
LiveSockets == {"s1", "s2"}

LiveNext ==
  \/ \E i \in LiveSockets : Connection(i) /\ NoNet
  \/ \E i \in LiveSockets, state \in Snapshots : Message(i, state) /\ NoNet
  \/ \E i \in LiveSockets : Disconnect(i) /\ NoNet
  \/ \E i \in LiveSockets : ConnectionLost(i) /\ NoNet
  \/ BroadcastTimer /\ NoNet
  \/ CleanupTimer /\ NoNet
  \/ Tick /\ NoNet

LiveSpec ==
  /\ Init
  /\ [][LiveNext]_vars
  /\ WF_vars(Tick /\ NoNet)
  /\ WF_vars(CleanupTimer /\ NoNet)

(***************************************************************************)
(* The way to the clients (socket.io over one websocket per client:        *)
(* reliable and in order) and the clients' message dispatch                *)
(* (SocketClient.setupListeners, GameScene.setupNetworkCallbacks).         *)
(***************************************************************************)
\* the value of a parameter for which the caller passed no argument
\* (JavaScript's undefined); no colour, seed or id of the program is negative
Undefined == -1

\* the messages of the emissions em that go to socket c, in emission order
RECURSIVE Addressed(_, _)
Addressed(em, c) ==
  IF em = <<>> THEN <<>>
  ELSE IF c \in Head(em).to
         THEN <<Head(em).msg>> \o Addressed(Tail(em), c)
         ELSE Addressed(Tail(em), c)

\* the emitted messages join the queues of the open sockets; what is sent
\* to a lost socket never arrives, and a closed socket delivers nothing more
Enqueue ==
  /\ \A c \in SocketSet :
       conn'[c] = "open" => Len(chan[c]) + Len(Addressed(emitted', c)) <= MaxChan
  /\ chan' = [c \in SocketSet |->
                IF conn'[c] = "open" THEN chan[c] \o Addressed(emitted', c) ELSE <<>>]
  /\ leaves' = LeavesAfter(emitted')

Transmit ==
  /\ Enqueue
  /\ UNCHANGED <<client, sceneVars>>

\* client i has driven its vehicle to the state `state` and sends it
\* (GameScene.sendPositionUpdate); the server's message handler runs
SendPosition(i, state) ==
  /\ Message(i, state)
  /\ Enqueue
  /\ client' = [client EXCEPT ![i].vehicle = state]
  /\ UNCHANGED sceneVars

\* the k-th parameter of a callback called with the arguments args
Param(args, k) == IF k <= Len(args) THEN args[k] ELSE Undefined

\* GameScene: setOnWelcome((id, terrainSeed, color) => ...), called with args
OnWelcome(cl, args) ==
  [cl EXCEPT
     !.welcome = << [id |-> Param(args, 1), terrainSeed |-> Param(args, 2),
                     color |-> Param(args, 3)] >>]

\* GameScene: setOnPlayerLeft
OnPlayerLeftKeepingGhost(cl, id) == [cl EXCEPT !.left = @ \cup {id}]

OnPlayerLeft(cl, id) ==
  [cl EXCEPT !.ghostVehicles = @ \ {id}, !.left = @ \cup {id}]

\* GameScene: setOnPlayersUpdate: a ghost is created for each listed player
\* that has none
OnPlayersUpdate(cl, list) ==
  [cl EXCEPT !.ghostVehicles = @ \cup {list[k].id : k \in DOMAIN list},
             !.created = @ \cup {list[k].id : k \in DOMAIN list}]

\* SocketClient: socket.on('message')
DispatchApplyingOwn(cl, m) ==
  CASE m.type = "welcome" ->
         OnWelcome([cl EXCEPT !.playerId = m.id, !.terrainSeed = m.terrainSeed],
                   <<m.id, m.terrainSeed>>)
    [] m.type = "playerJoined" -> cl
    [] m.type = "playerLeft" -> OnPlayerLeft(cl, m.id)
    [] m.type = "players" ->
         LET own == SelectSeq(m.players, LAMBDA p : p.id = cl.playerId)
             moved == IF own = <<>> THEN cl
                      ELSE [cl EXCEPT !.vehicle =
                              [f \in DOMAIN cl.vehicle |-> own[1][f]]]
         IN  OnPlayersUpdate(moved, SelectSeq(m.players, LAMBDA p : p.id # cl.playerId))

DispatchUnfiltered(cl, m) ==
  CASE m.type = "welcome" ->
         OnWelcome([cl EXCEPT !.playerId = m.id, !.terrainSeed = m.terrainSeed],
                   <<m.id, m.terrainSeed>>)
    [] m.type = "playerJoined" -> cl
    [] m.type = "playerLeft" -> OnPlayerLeft(cl, m.id)
    [] m.type = "players" -> OnPlayersUpdate(cl, m.players)

Dispatch(cl, m) ==
  CASE m.type = "welcome" ->
         OnWelcome([cl EXCEPT !.playerId = m.id, !.terrainSeed = m.terrainSeed],
                   <<m.id, m.terrainSeed>>)
    [] m.type = "playerJoined" -> cl
    [] m.type = "playerLeft" -> OnPlayerLeft(cl, m.id)
    [] m.type = "players" ->
         OnPlayersUpdate(cl, SelectSeq(m.players, LAMBDA p : p.id # cl.playerId))

\* client c takes the oldest message in flight
ClientReceive(c) ==
  /\ conn[c] = "open"
  /\ chan[c] # <<>>
  /\ client' = [client EXCEPT ![c] = Dispatch(@, Head(chan[c]))]
  /\ chan' = [chan EXCEPT ![c] = Tail(@)]
  /\ emitted' = <<>>
  /\ lastEvent' = [type |-> "receive", id |-> c, msg |-> Head(chan[c])]
  /\ UNCHANGED <<players, nextColorIndex, now, staleIds, assigned, sweepDue, conn,
                 leaves, sceneVars>>

\* NetSpec: the server with two sockets whose clients send one payload, the
\* messages in flight and the clients
NetSockets == {"s1", "s2"}

NetSnapshots == {p \in Snapshots : p.x = 150}

NetNext ==
  \/ \E i \in NetSockets : Connection(i) /\ Transmit
  \/ \E i \in NetSockets, state \in NetSnapshots : SendPosition(i, state)
  \/ \E i \in NetSockets : Disconnect(i) /\ Transmit
  \/ \E i \in NetSockets : ConnectionLost(i) /\ Transmit
  \/ BroadcastTimer /\ Transmit
  \/ CleanupTimer /\ Transmit
  \/ Tick /\ Transmit
  \/ \E c \in NetSockets : ClientReceive(c)

NetSpec == Init /\ [][NetNext]_vars

(***************************************************************************)
(* GhostVehicle: the drawing of a remote player.  Positions and angles     *)
(* are integers; angles are in degrees, so Math.PI is 180.  The blend      *)
(* factor t = min(interpolationTime / interpolationDuration, 1) is carried *)
(* as its numerator over interpolationDuration; the sample values are even *)
(* and the frame times multiples of half the duration, so every product    *)
(* (b - a) * t divides exactly and the arithmetic of the model is the      *)
(* exact arithmetic of the reals.                                          *)
(***************************************************************************)
\* shared/types.ts: WORLD_WIDTH
WORLD_WIDTH == 10000
\* Math.PI, in degrees
PI == 180
\* GhostVehicle.interpolationDuration (ms)
interpolationDuration == 100

\* Math.abs
Abs(a) == IF a < 0 THEN -a ELSE a

\* the % of JavaScript: the result takes the sign of the dividend
JsRem(a, n) == IF a >= 0 THEN a % n ELSE -((-a) % n)

\* Terrain.getTerrainHeight(): normalizedX
normalizedX(x) == JsRem(JsRem(x, WORLD_WIDTH) + WORLD_WIDTH, WORLD_WIDTH)

\* the fields of a PlayerState that the ghost reads
GhostFields == {"x", "y", "angle", "frontWheelAngle", "rearWheelAngle"}

\* update(): Math.abs(dx) > WORLD_WIDTH / 2 for dx = targetX - currentX
InterpCrossesSeam(currentX, targetX) == Abs(targetX - currentX) > WORLD_WIDTH \div 2

\* renderAt(): Math.abs(distToLocal) > WORLD_WIDTH / 2
RenderCrossesSeam(x, localPlayerX) == Abs(x - localPlayerX) > WORLD_WIDTH \div 2

\* update(): t, as the numerator over interpolationDuration
BlendFactorUnclamped(time) == time

BlendFactor(time) == IF time < interpolationDuration THEN time ELSE interpolationDuration

\* update(): const lerp = (a, b, t) => a + (b - a) * t
lerp(a, b, t) == a + ((b - a) * t) \div interpolationDuration

\* lerpAngle(): the two while loops on delta
RECURSIVE WhileAbovePi(_)
WhileAbovePi(delta) == IF delta > PI THEN WhileAbovePi(delta - PI * 2) ELSE delta

RECURSIVE WhileBelowMinusPi(_)
WhileBelowMinusPi(delta) ==
  IF delta < -PI THEN WhileBelowMinusPi(delta + PI * 2) ELSE delta

lerpAngle(a, b, t) ==
  LET delta == WhileBelowMinusPi(WhileAbovePi(b - a))
  IN  a + (delta * t) \div interpolationDuration

\* renderAt(): the x at which the graphics are placed
RenderXAwayFromViewer(x, localPlayerX) ==
  IF RenderCrossesSeam(x, localPlayerX)
    THEN IF x - localPlayerX > 0 THEN x + WORLD_WIDTH ELSE x - WORLD_WIDTH
    ELSE x

RenderX(x, localPlayerX) ==
  IF RenderCrossesSeam(x, localPlayerX)
    THEN IF x - localPlayerX > 0 THEN x - WORLD_WIDTH ELSE x + WORLD_WIDTH
    ELSE x

\* renderAt(state, localPlayerX): what is drawn, and for which viewer
renderAt(state, localPlayerX) ==
  [ state |-> state,
    renderX |-> RenderX(state.x, localPlayerX),
    localPlayerX |-> localPlayerX ]

\* new GhostVehicle(scene, id, initialState, color); its last statement is
\* render(), which draws currentState as seen from its own x
NewGhost(initialState) ==
  [ currentState |-> initialState,
    targetState |-> initialState,
    interpolationTime |-> 0,
    drawn |-> renderAt(initialState, initialState.x) ]

\* updateState(newState)
updateState(g, newState) ==
  [ currentState |-> g.targetState,
    targetState |-> newState,
    interpolationTime |-> 0,
    drawn |-> g.drawn ]

\* update(delta, localPlayerX); t and span keep, for inspection, the locals t
\* and targetX - currentX (after the seam adjustment) of the call
update(g, delta, localPlayerX) ==
  LET time == g.interpolationTime + delta
      t == BlendFactor(time)
      dx == g.targetState.x - g.currentState.x
      crosses == InterpCrossesSeam(g.currentState.x, g.targetState.x)
      currentX == IF crosses /\ dx > 0
                    THEN g.currentState.x + WORLD_WIDTH ELSE g.currentState.x
      targetX == IF crosses /\ ~(dx > 0)
                   THEN g.targetState.x + WORLD_WIDTH ELSE g.targetState.x
      interpolatedState ==
        [ x |-> JsRem(lerp(currentX, targetX, t), WORLD_WIDTH),
          y |-> lerp(g.currentState.y, g.targetState.y, t),
          angle |-> lerpAngle(g.currentState.angle, g.targetState.angle, t),
          frontWheelAngle |->
            lerpAngle(g.currentState.frontWheelAngle, g.targetState.frontWheelAngle, t),
          rearWheelAngle |->
            lerpAngle(g.currentState.rearWheelAngle, g.targetState.rearWheelAngle, t) ]
  IN  [ currentState |-> g.currentState,
        targetState |-> g.targetState,
        interpolationTime |-> time,
        drawn |-> renderAt(interpolatedState, localPlayerX),
        t |-> t,
        span |-> targetX - currentX ]

(***************************************************************************)
(* GhostSpec: one ghost, as the players handler and the frames of the      *)
(* scene drive it.  The handler that meets a new id constructs the ghost,  *)
(* calls updateState with the same snapshot and then update, all in one    *)
(* run; Init is the state at the end of that run.                          *)
(***************************************************************************)
\* positions on the ring: the start line, a point just before the seam, and
\* the neighbourhoods of 0, of W and of W / 2
RingSamples ==
  {150, 9900}
    \cup {2 * k : k \in 0..SeamNear}
    \cup {WORLD_WIDTH - 2 * k : k \in 0..SeamNear}
    \cup {WORLD_WIDTH \div 2 + 2 * k : k \in (0 - SeamNear)..SeamNear}

\* two attitudes of a vehicle; between them the three angles differ by
\* half a turn, by two turns and a quarter, and by three quarters of a turn.
\* The attitude alternates along the ring, so that either attitude is met
\* on either side of the seam and of the half circumference.
GhostPose(x) ==
  IF (x \div 2) % 2 = 0
    THEN [y |-> 300, angle |-> 0, frontWheelAngle |-> 0, rearWheelAngle |-> 0]
    ELSE [y |-> 310, angle |-> 180, frontWheelAngle |-> 810, rearWheelAngle |-> 270]

\* the snapshots a players message may carry: x is what the sender's
\* getState() returned, or any number put on the wire (the server relays x
\* as it came)
GhostSnapshots ==
  { [x |-> x, y |-> GhostPose(x).y, angle |-> GhostPose(x).angle,
     frontWheelAngle |-> GhostPose(x).frontWheelAngle,
     rearWheelAngle |-> GhostPose(x).rearWheelAngle] :
      x \in RingSamples \cup {-30} }

\* game.loop.delta of a frame (ms): none, half the duration, more than all of it
FrameDeltas == {0, 50, 150}

\* vehicle.getPosition().x of the viewer
ViewerXs == {150, WORLD_WIDTH \div 2, 9900, WORLD_WIDTH}

GhostInit ==
  /\ ServerInit
  /\ \E s \in GhostSnapshots, delta \in FrameDeltas, localX \in ViewerXs :
       ghost = update(updateState(NewGhost(s), s), delta, localX)
  /\ scene = <<>>
  /\ seam = <<>>
  /\ elapsed = 0
  /\ terrain = <<>>

\* setOnPlayersUpdate for a message that lists the ghost's id with snapshot s
GhostPlayersUpdate(s, delta, localX) ==
  /\ delta <= MaxInterp
  /\ ghost' = update(updateState(ghost, s), delta, localX)
  /\ lastEvent' = [type |-> "playersUpdate", state |-> s, delta |-> delta,
                   localX |-> localX]
  /\ elapsed' = 0
  /\ UNCHANGED <<serverState, scene, seam, terrain>>

\* GameScene.update(): the loop over ghostVehicles
GhostFrame(delta, localX) ==
  /\ ghost.interpolationTime + delta <= MaxInterp
  /\ ghost' = update(ghost, delta, localX)
  /\ lastEvent' = [type |-> "frame", delta |-> delta, localX |-> localX]
  /\ elapsed' = elapsed + delta
  /\ UNCHANGED <<serverState, scene, seam, terrain>>

GhostNext ==
  \/ \E s \in GhostSnapshots, delta \in FrameDeltas, localX \in ViewerXs :
       GhostPlayersUpdate(s, delta, localX)
  \/ \E delta \in FrameDeltas, localX \in ViewerXs : GhostFrame(delta, localX)

GhostSpec == GhostInit /\ [][GhostNext]_vars

(***************************************************************************)
(* Vehicle and the frame of GameScene.  A body is its position, angle and  *)
(* velocity.  Each frame the physics engine steps the three bodies, then   *)
(* GameScene.update() runs: the vehicle wraps, the camera follows, and a   *)
(* position message is sent when one is due.                               *)
(***************************************************************************)
\* GameScene.update(): wrapped, for dx = pos.x - lastVehicleX
CameraWrapped(lastVehicleX, x) == Abs(x - lastVehicleX) > WORLD_WIDTH \div 2

\* Terrain.baseHeight
baseHeight == 450
\* Vehicle.chassisHeight, wheelRadius, wheelOffset
chassisHeight == 20
wheelRadius == 25
wheelOffset == 40

\* Terrain.getSpawnPosition()
getSpawnPosition == [x |-> 150, y |-> baseHeight - 80]

Body(x, y, angle, vx, vy) ==
  [x |-> x, y |-> y, angle |-> angle, vx |-> vx, vy |-> vy]

\* Matter.Body.setPosition(body, {x: body.position.x + offset, y: body.position.y}):
\* the body is translated; its angle and its velocity are kept
Translated(body, offset) == [body EXCEPT !.x = @ + offset]

\* new Vehicle(scene, x, y): the wheels sit wheelOffset before and behind the
\* chassis and chassisHeight / 2 + wheelRadius + 5 below it
NewVehicle(x, y) ==
  [ chassis |-> Body(x, y, 0, 0, 0),
    frontWheel |->
      Body(x + wheelOffset, y + chassisHeight \div 2 + wheelRadius + 5, 0, 0, 0),
    rearWheel |->
      Body(x - wheelOffset, y + chassisHeight \div 2 + wheelRadius + 5, 0, 0, 0) ]

\* Vehicle.wrapPosition()
wrapPositionChassisOnly(v) ==
  IF v.chassis.x > WORLD_WIDTH
    THEN [v EXCEPT !.chassis = Translated(v.chassis, 0 - WORLD_WIDTH)]
    ELSE IF v.chassis.x < 0
      THEN [v EXCEPT !.chassis = Translated(v.chassis, WORLD_WIDTH)]
      ELSE v

wrapPosition(v) ==
  IF v.chassis.x > WORLD_WIDTH
    THEN [ chassis |-> Translated(v.chassis, 0 - WORLD_WIDTH),
           frontWheel |-> Translated(v.frontWheel, 0 - WORLD_WIDTH),
           rearWheel |-> Translated(v.rearWheel, 0 - WORLD_WIDTH) ]
    ELSE IF v.chassis.x < 0
      THEN [ chassis |-> Translated(v.chassis, WORLD_WIDTH),
             frontWheel |-> Translated(v.frontWheel, WORLD_WIDTH),
             rearWheel |-> Translated(v.rearWheel, WORLD_WIDTH) ]
      ELSE v

\* Vehicle.getState()
getState(v) ==
  [ x |-> v.chassis.x, y |-> v.chassis.y, angle |-> v.chassis.angle,
    frontWheelAngle |-> v.frontWheel.angle, rearWheelAngle |-> v.rearWheel.angle,
    velocityX |-> v.chassis.vx, velocityY |-> v.chassis.vy ]

\* Vehicle.getPosition()
getPosition(v) == [x |-> v.chassis.x, y |-> v.chassis.y]

\* what one step of the physics engine may do to the chassis x
VehicleMoves == {-50, 50}

\* what one step of the physics engine may leave the rest at: height, chassis
\* angle, wheel angle, vertical velocity, and how far the suspension lets the
\* wheels trail behind their mounts
VehicleAttitudes ==
  { [y |-> 370, angle |-> 0, spin |-> 0, vy |-> 0, trail |-> 0],
    [y |-> 360, angle |-> 10, spin |-> 90, vy |-> -4, trail |-> 2] }

\* GameScene.create(): the vehicle at the spawn position, nothing sent yet
VehicleInit ==
  /\ ServerInit
  /\ ghost = <<>>
  /\ seam = <<>>
  /\ elapsed = 0
  /\ terrain = <<>>
  /\ scene = [ phase |-> "step",
               vehicle |-> NewVehicle(getSpawnPosition.x, getSpawnPosition.y),
               lastVehicleX |-> getSpawnPosition.x,
               wrapped |-> FALSE,
               sent |-> <<>> ]

\* the physics engine steps the world (before GameScene.update() in each frame)
PhysicsStep(dx, att) ==
  /\ scene.phase = "step"
  /\ LET x == scene.vehicle.chassis.x + dx
         wheelY == att.y + chassisHeight \div 2 + wheelRadius + 5
     IN  scene' = [scene EXCEPT
           !.phase = "update",
           !.vehicle =
             [ chassis |-> Body(x, att.y, att.angle, dx, att.vy),
               frontWheel |->
                 Body(x + wheelOffset - att.trail, wheelY, att.spin, dx, att.vy),
               rearWheel |->
                 Body(x - wheelOffset - att.trail, wheelY, att.spin, dx, att.vy) ]]
  /\ lastEvent' = [type |-> "physics"]
  /\ UNCHANGED <<serverState, ghost, seam, elapsed, terrain>>

\* GameScene.update(time, delta) for the local vehicle: Vehicle.update(), the
\* camera's wrap test, lastVehicleX, and sendPositionUpdate() when due
SceneUpdate(due) ==
  /\ scene.phase = "update"
  /\ LET v == wrapPosition(scene.vehicle)
         pos == getPosition(v)
     IN  scene' = [ phase |-> "step",
                    vehicle |-> v,
                    lastVehicleX |-> pos.x,
                    wrapped |-> CameraWrapped(scene.lastVehicleX, pos.x),
                    sent |-> IF due THEN <<getState(v)>> ELSE <<>> ]
  /\ lastEvent' = [type |-> "sceneUpdate"]
  /\ UNCHANGED <<serverState, ghost, seam, elapsed, terrain>>

VehicleNext ==
  \/ \E dx \in VehicleMoves, att \in VehicleAttitudes : PhysicsStep(dx, att)
  \/ \E due \in BOOLEAN : SceneUpdate(due)

VehicleSpec == VehicleInit /\ [][VehicleNext]_vars

(***************************************************************************)
(* SeamSpec: the four places of the client that decide whether two         *)
(* positions lie on opposite sides of the seam, applied to one pair.       *)
(***************************************************************************)
\* checkFinishLineCrossing(): a jump from lastCrossX to currentX counts as a
\* crossing of the line only if Math.abs(currentX - lastCrossX) < WORLD_WIDTH / 2;
\* any other jump is taken for a wrap
LapWrapJump(lastCrossX, currentX) ==
  ~(Abs(currentX - lastCrossX) < WORLD_WIDTH \div 2)

SeamInit ==
  /\ ServerInit
  /\ ghost = <<>>
  /\ scene = <<>>
  /\ elapsed = 0
  /\ terrain = <<>>
  /\ \E a \in RingSamples, b \in RingSamples :
       seam = [a |-> a, b |-> b, tests |-> <<>>]

\* the four tests on the pair: a is the earlier or the viewer's position, b
\* the later or the ghost's
ClassifyPair ==
  /\ seam.tests = <<>>
  /\ seam' = [seam EXCEPT !.tests =
                [ interpolation |-> InterpCrossesSeam(seam.a, seam.b),
                  render |-> RenderCrossesSeam(seam.b, seam.a),
                  camera |-> CameraWrapped(seam.a, seam.b),
                  lap |-> LapWrapJump(seam.a, seam.b) ]]
  /\ lastEvent' = [type |-> "classify"]
  /\ UNCHANGED <<serverState, ghost, scene, elapsed, terrain>>

SeamNext == ClassifyPair

SeamSpec == SeamInit /\ [][SeamNext]_vars

(***************************************************************************)
(* LapSpec: the scene's frame with the lap timer (GameScene.update,        *)
(* handleInput, checkFinishLineCrossing).  A frame lasts FrameTime ms.     *)
(* Near the finish line and the seam the vehicle moves MoveStep per frame; *)
(* beyond the checkpoint a stretch of the road is taken in one step: every *)
(* frame on such a stretch finds x > finishLineX + 500 and lastCrossX >    *)
(* finishLineX, so it changes nothing that the last frame of the stretch   *)
(* does not overwrite.                                                     *)
(***************************************************************************)
\* GameScene.finishLineX, positionUpdateInterval, and the distance beyond the
\* line at which the checkpoint lies
finishLineX == 150
positionUpdateInterval == 50
checkpointDistance == 500

\* bestLapTime === null; no lap time is negative
Null == -1

\* the frames of a run, the time between two frames (ms) and the distance
\* driven in one frame near the line
MaxLapFrames == 24
FrameTime == 100
MoveStep == 100

\* Vehicle.reset(x, y): the three bodies back in the spawn pose, at rest
reset(x, y) == NewVehicle(x, y)

\* handleInput(): the reset key or button, at this.time.now = timeNow
handleInput(sc, resetDown, timeNow) ==
  IF resetDown
    THEN [sc EXCEPT !.vehicle = reset(getSpawnPosition.x, getSpawnPosition.y),
                    !.lapStartTime = timeNow,
                    !.lastCrossX = getSpawnPosition.x,
                    !.hasPassedCheckpoint = FALSE]
    ELSE sc

\* checkFinishLineCrossing(): hasPassedCheckpoint after its first statement
PassedCheckpoint(sc, currentX) ==
  sc.hasPassedCheckpoint \/ currentX > finishLineX + checkpointDistance

\* checkFinishLineCrossing(): the value of `crossed`, when it is computed
Crossed(sc, currentX) ==
  /\ PassedCheckpoint(sc, currentX)
  /\ sc.lastCrossX - finishLineX <= 0
  /\ currentX - finishLineX > 0
  /\ ~LapWrapJump(sc.lastCrossX, currentX)

\* the best time after a lap of lapTime
BestLapTimeLatest(best, lapTime) == lapTime

BestLapTime(best, lapTime) ==
  IF best = Null \/ lapTime < best THEN lapTime ELSE best

\* checkFinishLineCrossing(currentX, time)
checkFinishLineCrossing(sc, currentX, time) ==
  IF ~PassedCheckpoint(sc, currentX)
    THEN [sc EXCEPT !.lastCrossX = currentX]
    ELSE IF Crossed(sc, currentX)
      THEN [sc EXCEPT !.bestLapTime = BestLapTime(@, time - sc.lapStartTime),
                      !.hasPassedCheckpoint = FALSE,
                      !.lapStartTime = time,
                      !.lastCrossX = currentX]
      ELSE [sc EXCEPT !.hasPassedCheckpoint = TRUE,
                      !.lastCrossX = currentX]

\* the positions of the vehicle in the model: every MoveStep from the seam
\* to beyond the checkpoint, mid-way round the ring, and before the seam
LapNear == {50 + k * MoveStep : k \in 0..7} \cup {WORLD_WIDTH - 50}

\* the stretches beyond the checkpoint that are driven in one step
LapStretches ==
  { <<750, 5050>>, <<5050, 750>>, <<5050, WORLD_WIDTH - 50>>,
    <<WORLD_WIDTH - 50, 5050>> }

\* what one step of the physics engine may do to the chassis x at x
LapMoves(x) ==
  {d \in {0 - MoveStep, MoveStep} :
     x + d \in LapNear \cup {0 - 50, WORLD_WIDTH + 50}}
    \cup {st[2] - x : st \in {t \in LapStretches : t[1] = x}}

\* the vehicle level on its wheels
LapAttitude == [y |-> 370, angle |-> 0, spin |-> 0, vy |-> 0, trail |-> 0]

\* GameScene.create(): the vehicle at the spawn position, the lap timer
\* started, no best time.  lapTimes and travel are history: the lap times
\* recorded so far, and the distance driven forward, less the distance
\* driven backward, since the spawn, the last reset or the last counted lap.
LapInit ==
  /\ ServerInit
  /\ ghost = <<>>
  /\ seam = <<>>
  /\ elapsed = 0
  /\ terrain = <<>>
  /\ scene = [ phase |-> "step",
               vehicle |-> NewVehicle(getSpawnPosition.x, getSpawnPosition.y),
               lastVehicleX |-> getSpawnPosition.x,
               wrapped |-> FALSE,
               sent |-> <<>>,
               time |-> 0,
               lastPositionUpdate |-> 0,
               lapStartTime |-> 0,
               bestLapTime |-> Null,
               lastCrossX |-> getSpawnPosition.x,
               hasPassedCheckpoint |-> FALSE,
               lapTimes |-> <<>>,
               travel |-> 0 ]

\* the physics engine steps the world before the frame's update
LapPhysicsStep(dx) ==
  /\ scene.time < MaxLapFrames * FrameTime
  /\ PhysicsStep(dx, LapAttitude)

\* GameScene.update(time, delta): handleInput(), Vehicle.update(), the
\* camera's wrap test, lastVehicleX, checkFinishLineCrossing() and
\* sendPositionUpdate() when due
GameSceneUpdate(resetDown) ==
  /\ scene.phase = "update"
  /\ LET time == scene.time + FrameTime
         driven == scene.vehicle.chassis.x - scene.lastVehicleX
         input == handleInput(scene, resetDown, time)
         v == wrapPosition(input.vehicle)
         pos == getPosition(v)
         cam == [input EXCEPT !.vehicle = v,
                              !.wrapped = CameraWrapped(input.lastVehicleX, pos.x),
                              !.lastVehicleX = pos.x]
         counted == Crossed(cam, pos.x)
         lap == checkFinishLineCrossing(cam, pos.x, time)
         due == time - lap.lastPositionUpdate > positionUpdateInterval
         travelled == IF resetDown THEN 0 ELSE scene.travel + driven
     IN  /\ scene' = [lap EXCEPT
                        !.phase = "step",
                        !.time = time,
                        !.sent = IF due THEN <<getState(v)>> ELSE <<>>,
                        !.lastPositionUpdate = IF due THEN time ELSE @,
                        !.lapTimes = IF counted
                                       THEN Append(@, time - cam.lapStartTime)
                                       ELSE @,
                        !.travel = IF counted THEN 0 ELSE travelled]
         /\ lastEvent' = [type |-> "update", reset |-> resetDown,
                          counted |-> counted, travelled |-> travelled,
                          jumped |-> v # input.vehicle]
  /\ UNCHANGED <<serverState, ghost, seam, elapsed, terrain>>

LapNext ==
  \/ \E dx \in LapMoves(scene.vehicle.chassis.x) : LapPhysicsStep(dx)
  \/ \E resetDown \in BOOLEAN : GameSceneUpdate(resetDown)

LapSpec == LapInit /\ [][LapNext]_vars

(***************************************************************************)
(* Terrain.  Heights are whole pixels and angles are in milliradians.      *)
(* Math.sin is evaluated by Bhaskara's rational approximation              *)
(* 16 p / (5 pi^2 - 4 p), p = x (pi - x), to seven decimal places: the     *)
(* heights of the model are not those of the program to the pixel, but     *)
(* they are computed by the same steps from the same two inputs, the seed  *)
(* and x.                                                                  *)
(***************************************************************************)
\* Terrain.segmentWidth, amplitude1..3, wrapBuffer
segmentWidth == 40
amplitude1 == 50
amplitude2 == 25
amplitude3 == 10
wrapBuffer == 800
\* Terrain.frequency1..3 in milliradians per pixel (0.002, 0.005, 0.015)
frequency1 == 2
frequency2 == 5
frequency3 == 15
\* Math.PI in milliradians, and the scale of a sine value (seven decimals)
MilliPi == 3142
SineScale == 10000000

\* the first n decimal places of r / den, for 0 <= r < den
RECURSIVE Decimals(_, _, _)
Decimals(r, den, n) ==
  IF n = 0 THEN 0
  ELSE ((r * 10) \div den) * 10 ^ (n - 1) + Decimals((r * 10) % den, den, n - 1)

\* sin on [0, pi], scaled by SineScale
HalfWave(x) ==
  LET p == x * (MilliPi - x)
      num == 16 * p
      den == 5 * MilliPi * MilliPi - 4 * p
  IN  (num \div den) * SineScale + Decimals(num % den, den, 7)

\* Math.sin(theta), theta in milliradians, scaled by SineScale
Sin(theta) ==
  LET t == theta % (2 * MilliPi)
  IN  IF t < MilliPi THEN HalfWave(t) ELSE 0 - HalfWave(t - MilliPi)

\* Terrain.seededRandom(x) for x = tenths / 10: the fractional part of
\* Math.sin(x * 0.1 + seed) * 10000, in thousandths
seededRandom(seed, tenths) ==
  Sin(tenths * 10 + seed * 1000) % 1000

\* Terrain.getHillHeight(x)
getHillHeight(seed, x) ==
  LET y1 == (Sin(x * frequency1 + seed * 1000) * amplitude1) \div SineScale
      y2 == (Sin(x * frequency2 + seed * 2 * 1000) * amplitude2) \div SineScale
      y3 == (Sin(x * frequency3 + seed * 3 * 1000) * amplitude3) \div SineScale
      noise == ((seededRandom(seed, x) - 500) * 5) \div 1000
  IN  baseHeight + y1 + y2 + y3 + noise

\* Terrain.getTerrainHeight(x): flat up to 300, blended into the hills by
\* t * t for t = (normalizedX - 300) / 100 up to 400
getTerrainHeight(seed, x) ==
  LET nx == normalizedX(x)
  IN  IF nx < 400
        THEN IF nx > 300
               THEN baseHeight
                      + ((getHillHeight(seed, nx) - baseHeight)
                           * (nx - 300) * (nx - 300)) \div 10000
               ELSE baseHeight
        ELSE getHillHeight(seed, nx)

\* generateTerrain(): the number of turns of
\* for (let x = 0; x <= WORLD_WIDTH; x += this.segmentWidth)
PointCountExclusive == (WORLD_WIDTH - 1) \div segmentWidth + 1

PointCount == WORLD_WIDTH \div segmentWidth + 1

\* generateTerrain(): the points pushed by the loop
GeneratedPoints(seed) ==
  [k \in 1..PointCount |->
     [x |-> (k - 1) * segmentWidth,
      y |-> getTerrainHeight(seed, (k - 1) * segmentWidth)]]

\* generateTerrain(): this.points[this.points.length - 1].y = this.points[0].y
LoopClosed(points) == [points EXCEPT ![Len(points)].y = points[1].y]

\* the static body made of two consecutive points: its centre is at
\* (midX, sumY / 2 + 25), its length is the square root of run^2 + rise^2 and
\* its angle is atan2(rise, run)
Segment(p1, p2, offsetX) ==
  [ midX |-> (p1.x + p2.x) \div 2 + offsetX,
    sumY |-> p1.y + p2.y,
    run |-> p2.x - p1.x,
    rise |-> p2.y - p1.y ]

\* createTerrainSegments(offsetX)
createTerrainSegments(points, offsetX) ==
  [i \in 1..(Len(points) - 1) |-> Segment(points[i], points[i + 1], offsetX)]

\* createWrapSegments(): shouldCreate
ShouldCreateStrictly(offsetX, p1x) ==
  IF offsetX < 0 THEN p1x > WORLD_WIDTH - wrapBuffer ELSE p1x < wrapBuffer

ShouldCreate(offsetX, p1x) ==
  IF offsetX < 0 THEN p1x >= WORLD_WIDTH - wrapBuffer ELSE p1x <= wrapBuffer

\* createWrapSegments(offsetX)
createWrapSegments(points, offsetX) ==
  LET pairs == [i \in 1..(Len(points) - 1) |-> <<points[i], points[i + 1]>>]
      kept == SelectSeq(pairs, LAMBDA e : ShouldCreate(offsetX, e[1].x))
  IN  [i \in DOMAIN kept |-> Segment(kept[i][1], kept[i][2], offsetX)]

\* new Terrain(scene, seed): generateTerrain(); under is what the last ground
\* probe found
NewTerrain(seed) ==
  LET points == LoopClosed(GeneratedPoints(seed))
  IN  [ seed |-> seed,
        points |-> points,
        segments |-> createTerrainSegments(points, 0)
                       \o createWrapSegments(points, 0 - WORLD_WIDTH)
                       \o createWrapSegments(points, WORLD_WIDTH),
        under |-> <<>> ]

\* the segments of the world that lie under x
SegmentsUnder(segments, x) ==
  {k \in DOMAIN segments :
     /\ segments[k].midX * 2 - segments[k].run <= x * 2
     /\ x * 2 <= segments[k].midX * 2 + segments[k].run}

(***************************************************************************)
(* TerrainSpec: a terrain built from a seed, and the physics engine        *)
(* looking for ground under positions in and around the ring.              *)
(***************************************************************************)
\* the seed every client uses, and another
TerrainSeeds == {TERRAIN_SEED, 1}

\* positions every half segment around either seam, from two segments
\* beyond the copies to two segments inside the buffer, and every tenth
\* segment in between
ProbeXs ==
  LET reach == (wrapBuffer + 2 * segmentWidth) \div (segmentWidth \div 2)
  IN  {k * (segmentWidth \div 2) : k \in (0 - reach)..reach}
        \cup {WORLD_WIDTH + k * (segmentWidth \div 2) : k \in (0 - reach)..reach}
        \cup {k * 10 * segmentWidth : k \in 0..(WORLD_WIDTH \div (10 * segmentWidth))}

TerrainInit ==
  /\ ServerInit
  /\ ghost = <<>>
  /\ scene = <<>>
  /\ seam = <<>>
  /\ elapsed = 0
  /\ \E seed \in TerrainSeeds : terrain = NewTerrain(seed)

\* the engine tests a body at x against the static segments of the world
GroundProbe(x) ==
  /\ terrain' = [terrain EXCEPT
                   !.under = <<[x |-> x, segments |-> SegmentsUnder(terrain.segments, x)]>>]
  /\ lastEvent' = [type |-> "probe"]
  /\ UNCHANGED <<serverState, ghost, scene, seam, elapsed>>

TerrainNext == \E x \in ProbeXs : GroundProbe(x)

TerrainSpec == TerrainInit /\ [][TerrainNext]_vars

(***************************************************************************)
(* Properties of GameRoom, checked under RoomSpec.                         *)
(***************************************************************************)
SeqToSet(q) == {q[k] : k \in DOMAIN q}

NoDuplicates(q) == \A j, k \in DOMAIN q : q[j] = q[k] => j = k

\* C2: updatePlayerState(id, state) for an id that has no registry entry
\* leaves the registry as it was: no entry appears, no entry changes its
\* state or lastUpdate, and the colour counter is untouched.
C2_UnknownIdUpdateIsNoOp ==
  [][ (lastEvent'.type = "updatePlayerState" /\ ~MapHas(players, lastEvent'.id))
        => (players' = players /\ nextColorIndex' = nextColorIndex) ]_vars

\* an update was just dropped for an id that the sweep had removed, while
\* another entry is in the registry
C2_Witness ==
  /\ lastEvent.type = "updatePlayerState"
  /\ ~MapHas(players, lastEvent.id)
  /\ lastEvent.id \in SeqToSet(staleIds)
  /\ players # <<>>

\* C3: an entry's id and colour change only when addPlayer is called for its
\* id; updatePlayerState(id, s) on an existing id makes the seven position
\* fields equal to those of s, keeps id and colour, adds no other field and
\* changes no other entry.
C3_IdColorFixedFieldsReplaced ==
  [][ /\ \A id \in RoomIds :
           (/\ MapHas(players, id)
            /\ MapHas(players', id)
            /\ ~(lastEvent'.type = "addPlayer" /\ lastEvent'.id = id))
             => /\ getPlayer(players', id).state.color = getPlayer(players, id).state.color
                /\ getPlayer(players', id).state.id = id
                /\ getPlayer(players', id).id = id
      /\ (lastEvent'.type = "updatePlayerState" /\ MapHas(players, lastEvent'.id))
           => /\ MapHas(players', lastEvent'.id)
              /\ \A f \in PositionFields :
                   getPlayer(players', lastEvent'.id).state[f] = lastEvent'.state[f]
              /\ DOMAIN getPlayer(players', lastEvent'.id).state
                   = PositionFields \cup {"id", "color"}
              /\ Len(players') = Len(players)
              /\ \A k \in DOMAIN players :
                   players[k].id # lastEvent'.id => players'[k] = players[k]
    ]_vars

\* an entry created with a colour other than the first one has just been
\* updated over an earlier update, next to another entry
C3_Witness ==
  /\ lastEvent.type = "updatePlayerState"
  /\ MapHas(players, lastEvent.id)
  /\ getPlayer(players, lastEvent.id).state.x = 9900
  /\ getPlayer(players, lastEvent.id).state.color = COLORS[4]
  /\ Len(players) = 2
  /\ \E k \in DOMAIN players : players[k].state.x = 150

\* C4: the n-th addPlayer call stores palette colour COLORS[(n-1) mod 8]
\* (COLORS 0-based as in the source), whatever calls come in between, so the
\* (8+k)-th colour equals the k-th.
C4_RoundRobinColor ==
  /\ \A n \in DOMAIN assigned :
       assigned[n] = COLORS[((n - 1) % Len(COLORS)) + 1]
  /\ \A k \in DOMAIN assigned :
       k + Len(COLORS) <= Len(assigned) => assigned[k + Len(COLORS)] = assigned[k]

\* more colours assigned than the palette holds, with removals and a sweep
\* in between
C4_Witness ==
  /\ Len(assigned) > Len(COLORS)
  /\ Len(players) = 1
  /\ staleIds # <<>>
  /\ lastEvent.type = "addPlayer"

\* C5: cleanupStalePlayers() at time now removes exactly the entries with
\* now - lastUpdate > 30000 (age 30000 stays, age 30001 goes), returns exactly
\* the removed ids, each once, and leaves every other entry as it was.
C5_SweepRemovesExactlyStale ==
  [][ lastEvent'.type = "cleanupStalePlayers"
        => /\ \A k \in DOMAIN players :
                IF now - players[k].lastUpdate > 30000
                  THEN ~MapHas(players', players[k].id)
                  ELSE /\ MapHas(players', players[k].id)
                       /\ getPlayer(players', players[k].id) = players[k]
           /\ \A k \in DOMAIN players :
                /\ now - players[k].lastUpdate = 30000 => MapHas(players', players[k].id)
                /\ now - players[k].lastUpdate = 30001 => ~MapHas(players', players[k].id)
           /\ MapKeys(players') \subseteq MapKeys(players)
           /\ SeqToSet(staleIds') = MapKeys(players) \ MapKeys(players')
           /\ NoDuplicates(staleIds')
    ]_vars

\* a sweep at 30001 has just removed the entry last updated at 0 (age 30001)
\* and kept the entry last updated at 1 (age 30000)
C5_Witness ==
  /\ lastEvent.type = "cleanupStalePlayers"
  /\ now = 30001
  /\ Len(staleIds) = 1
  /\ Len(players) = 1
  /\ now - players[1].lastUpdate = 30000

(***************************************************************************)
(* Properties of the server, checked under Spec, LiveSpec and NetSpec.     *)
(***************************************************************************)
\* the messages of a given type among the emissions of the last handler
EmittedOfType(t) == {k \in DOMAIN emitted : emitted[k].msg.type = t}

\* C1: after the disconnect handler of socket i the registry has no entry
\* for i and one playerLeft{i} has been emitted to all connections; the
\* registry never holds a closed socket's id again, and no players message
\* lists one, whatever the timers and the other handlers do in between.
C1_DisconnectRemovesAndNotifies ==
  /\ lastEvent.type = "disconnect"
       => /\ ~MapHas(players, lastEvent.id)
          /\ emitted = << [to |-> {j \in SocketSet : conn[j] \in {"open", "lost"}},
                           msg |-> [type |-> "playerLeft", id |-> lastEvent.id]] >>
  /\ \A i \in SocketSet : conn[i] = "closed" => ~MapHas(players, i)
  /\ \A k \in EmittedOfType("players") :
       \A j \in DOMAIN emitted[k].msg.players :
         conn[emitted[k].msg.players[j].id] # "closed"

\* a players message goes out to the remaining connections after a socket
\* that had sent a position has disconnected and the sweep has evicted another
C1_Witness ==
  /\ lastEvent.type = "broadcast"
  /\ emitted # <<>>
  /\ conn["s1"] = "closed"
  /\ staleIds # <<>>
  /\ Connected(conn) # {}

\* C6: a firing of the broadcast timer emits nothing when the registry is
\* empty, and otherwise one players message to all connections, listing one
\* state per registry entry: distinct ids, the stored state and colour of
\* each entry, nothing else.
C6_BroadcastIsRegistrySnapshot ==
  lastEvent.type = "broadcast"
    => IF players = <<>>
         THEN emitted = <<>>
         ELSE /\ Len(emitted) = 1
              /\ emitted[1].to = {j \in SocketSet : conn[j] \in {"open", "lost"}}
              /\ emitted[1].msg.type = "players"
              /\ LET list == emitted[1].msg.players
                 IN  /\ \A j, k \in DOMAIN list : list[j].id = list[k].id => j = k
                     /\ {list[k].id : k \in DOMAIN list} = MapKeys(players)
                     /\ \A k \in DOMAIN list :
                          list[k] = getPlayer(players, list[k].id).state

\* a players message with three entries, one still at the spawn state and
\* two carrying different positions
C6_Witness ==
  /\ lastEvent.type = "broadcast"
  /\ Len(emitted) = 1
  /\ Len(emitted[1].msg.players) = 3
  /\ {emitted[1].msg.players[k].x : k \in 1..3} = {200, 150, 9900}

\* C8: the connection handler of socket i emits one playerJoined{i}, to every
\* connection other than i and not to i; no other handler emits playerJoined.
C8_JoinedToOthersOnly ==
  /\ lastEvent.type = "connection"
       => /\ Cardinality(EmittedOfType("playerJoined")) = 1
          /\ \A k \in EmittedOfType("playerJoined") :
               /\ emitted[k].msg = [type |-> "playerJoined", id |-> lastEvent.id]
               /\ lastEvent.id \notin emitted[k].to
               /\ emitted[k].to =
                    {j \in SocketSet : conn[j] \in {"open", "lost"}} \ {lastEvent.id}
  /\ lastEvent.type # "connection" => EmittedOfType("playerJoined") = {}

\* the third socket has just connected while the first two are connected
C8_Witness ==
  /\ lastEvent = [type |-> "connection", id |-> "s3"]
  /\ \E k \in DOMAIN emitted :
       /\ emitted[k].msg.type = "playerJoined"
       /\ emitted[k].to = {"s1", "s2"}

\* C9: every position message the server handles for a connected socket is
\* stored in the registry (and so carried by the next players broadcast), in
\* every reachable state, also after the staleness sweep has run.
C9_HandledPositionIsStored ==
  lastEvent.type = "message"
    => /\ conn[lastEvent.id] = "open"
       /\ MapHas(players, lastEvent.id)
       /\ \A f \in PositionFields :
            getPlayer(players, lastEvent.id).state[f] = lastEvent.state[f]

\* C10: an entry whose socket is lost (no close event, no further position)
\* is eventually removed by the sweep; no entry is ever older than the
\* threshold plus one sweep period; and each sweep emits one playerLeft per
\* removed id to all connections.
C10_LostEntryIsSwept ==
  /\ \A i \in LiveSockets :
       (/\ conn[i] = "lost"
        /\ MapHas(players, i)
        /\ getPlayer(players, i).lastUpdate + staleTimeout + SweepInterval
             <= MaxEpoch * SweepInterval)
         ~> ~MapHas(players, i)
  /\ [](\A k \in DOMAIN players : now - players[k].lastUpdate <= 30000 + 10000)
  /\ [](lastEvent.type = "cleanup"
          => /\ SeqToSet(staleIds) \cap MapKeys(players) = {}
             /\ Len(emitted) = Len(staleIds)
             /\ \A k \in DOMAIN staleIds :
                  emitted[k] = [to |-> {j \in SocketSet : conn[j] \in {"open", "lost"}},
                                msg |-> [type |-> "playerLeft", id |-> staleIds[k]]])

\* the sweep has just evicted the entry of a lost socket, 40 s after its last
\* update, and told the other connection
C10_Witness ==
  /\ lastEvent.type = "cleanup"
  /\ \E k \in DOMAIN staleIds : conn[staleIds[k]] = "lost"
  /\ \E j \in SocketSet : conn[j] = "open"
  /\ emitted # <<>>
  /\ now = 40000

\* C11: a handled position update stamps the entry with the time of handling;
\* the sweep removes an entry only if it is older than the threshold and keeps
\* every entry that is not; so an entry updated in every 30 s window is never
\* removed by the sweep.
C11_FreshEntrySurvivesSweep ==
  [][ /\ (lastEvent'.type = "message" /\ MapHas(players, lastEvent'.id))
           => /\ MapHas(players', lastEvent'.id)
              /\ getPlayer(players', lastEvent'.id).lastUpdate = now
      /\ lastEvent'.type = "cleanup"
           => \A k \in DOMAIN players :
                /\ ~MapHas(players', players[k].id)
                     => now - players[k].lastUpdate > staleTimeout
                /\ now - players[k].lastUpdate <= staleTimeout
                     => /\ MapHas(players', players[k].id)
                        /\ getPlayer(players', players[k].id) = players[k]
    ]_vars

\* a sweep at 40 s has evicted a silent entry and kept one that was updated
\* 30 s before, exactly at the threshold
C11_Witness ==
  /\ lastEvent.type = "cleanup"
  /\ now = 40000
  /\ staleIds # <<>>
  /\ \E k \in DOMAIN players :
       /\ players[k].state.x # 200
       /\ now - players[k].lastUpdate = staleTimeout

(***************************************************************************)
(* Properties of the ghost, checked under GhostSpec.                       *)
(***************************************************************************)
\* a and b are the same point of the ring
SameRingPoint(a, b) == (a - b) % WORLD_WIDTH = 0

\* C12: the players handler, through updateState(s), makes the previous
\* target the interpolation source, makes s the target and restarts the
\* clock (which the handler's own update() then advances by the frame time);
\* the source is one of the received snapshots; and the source is where the
\* ghost was last drawn: same height, same point of the ring.
C12_SourceIsLastRendered ==
  [][ lastEvent'.type = "playersUpdate"
        => /\ ghost'.currentState = ghost.targetState
           /\ ghost'.targetState = lastEvent'.state
           /\ ghost'.interpolationTime = lastEvent'.delta
           /\ ghost'.currentState \in GhostSnapshots
           /\ ghost'.currentState.y = ghost.drawn.state.y
           /\ SameRingPoint(ghost'.currentState.x, ghost.drawn.state.x)
    ]_vars

\* the angles among the fields the ghost reads
AngleFields == {"angle", "frontWheelAngle", "rearWheelAngle"}

\* the length of the shorter way round the ring between two points
RingDist(a, b) ==
  LET m == (a - b) % WORLD_WIDTH
  IN  IF m <= WORLD_WIDTH - m THEN m ELSE WORLD_WIDTH - m

Between(v, a, b) == (a <= v /\ v <= b) \/ (b <= v /\ v <= a)

\* the drawn state lies on the way from the source to the target: the height
\* between the two heights, x on a shortest arc of the ring between the two
\* positions, each angle on an arc of at most half a turn that starts at the
\* source angle and ends at the target angle's direction
NoOvershoot ==
  /\ Between(ghost.drawn.state.y, ghost.currentState.y, ghost.targetState.y)
  /\ RingDist(ghost.drawn.state.x, ghost.currentState.x)
       + RingDist(ghost.drawn.state.x, ghost.targetState.x)
       = RingDist(ghost.currentState.x, ghost.targetState.x)
  /\ \A f \in AngleFields :
       \E arc \in (0 - PI)..PI :
         /\ (ghost.targetState[f] - ghost.currentState[f] - arc) % (PI * 2) = 0
         /\ Between(ghost.drawn.state[f], ghost.currentState[f],
                    ghost.currentState[f] + arc)

\* source and target of the interpolation have x in [0, W]
OnTheRing ==
  /\ ghost.currentState.x \in 0..WORLD_WIDTH
  /\ ghost.targetState.x \in 0..WORLD_WIDTH

\* C13 (as stated): for source and target with x in [0, W], what update()
\* draws equals the source in all five fields at t = 0 and the target in all
\* five fields at t = 1, lies nowhere beyond the target, and t never
\* exceeds 1.
C13_EndpointsExact ==
  OnTheRing
    => /\ ghost.t <= interpolationDuration
       /\ ghost.t = 0
            => \A f \in GhostFields : ghost.drawn.state[f] = ghost.currentState[f]
       /\ ghost.t = interpolationDuration
            => \A f \in GhostFields : ghost.drawn.state[f] = ghost.targetState[f]
       /\ NoOvershoot

\* C13 (amended): for source and target with x in [0, W], what update() draws
\* at t = 0 has the source's height and angles and the source's point of the
\* ring (its x exactly when that is below W); at t = 1 it has the target's
\* height, the target's point of the ring (its x exactly when below W) and
\* each angle of the target up to whole turns (exactly when it is within half
\* a turn of the source's); it lies nowhere beyond the target; t never
\* exceeds 1.
C13_EndpointsUpToWrap ==
  OnTheRing
    => /\ ghost.t <= interpolationDuration
       /\ ghost.t = 0
            => /\ ghost.drawn.state.y = ghost.currentState.y
               /\ \A f \in AngleFields : ghost.drawn.state[f] = ghost.currentState[f]
               /\ ghost.drawn.state.x = ghost.currentState.x % WORLD_WIDTH
       /\ ghost.t = interpolationDuration
            => /\ ghost.drawn.state.y = ghost.targetState.y
               /\ ghost.drawn.state.x = ghost.targetState.x % WORLD_WIDTH
               /\ \A f \in AngleFields :
                    /\ (ghost.drawn.state[f] - ghost.targetState[f]) % (PI * 2) = 0
                    /\ Abs(ghost.targetState[f] - ghost.currentState[f]) <= PI
                         => ghost.drawn.state[f] = ghost.targetState[f]
       /\ NoOvershoot

\* a frame has completed an interpolation across the seam, from 9900 to 150:
\* the ghost is drawn at the target, its front wheel a quarter turn from the
\* source where the target is two turns and a quarter away
C13_Witness ==
  /\ lastEvent.type = "frame"
  /\ ghost.interpolationTime > interpolationDuration
  /\ ghost.t = interpolationDuration
  /\ ghost.currentState.x = 9900
  /\ ghost.targetState.x = 150
  /\ ghost.drawn.state.x = 150
  /\ ghost.drawn.state.frontWheelAngle = 90
  /\ ghost.targetState.frontWheelAngle = 810

\* C14: the rotation that lerpAngle applies, (drawn - source) = delta * t, has
\* its delta in the half-open interval (-pi, pi] and equal to target - source
\* up to whole turns, for every pair of angles: differences of exactly pi and
\* of exactly -pi both turn the same way.
C14_DeltaInHalfOpenInterval ==
  ghost.t > 0
    => \A f \in AngleFields :
         LET turned == (ghost.drawn.state[f] - ghost.currentState[f])
                         * interpolationDuration
         IN  /\ turned > (0 - PI) * ghost.t
             /\ turned <= PI * ghost.t
             /\ ghost.t = interpolationDuration
                  => (ghost.drawn.state[f] - ghost.targetState[f]) % (PI * 2) = 0

\* C15: for a ghost x in [0, W) and a viewer x in [0, W], the ghost is drawn
\* at a copy of its x (x, x - W or x + W), the one nearest to the viewer: at
\* most W / 2 away; the copy differs from x exactly when x is more than W / 2
\* from the viewer, and lies then on the viewer's side; a ghost at 150 seen
\* from 9900 is drawn at 10150.
C15_NearestCopyDrawn ==
  LET x == ghost.drawn.state.x
      viewerX == ghost.drawn.localPlayerX
      renderX == ghost.drawn.renderX
  IN  (x \in 0..(WORLD_WIDTH - 1) /\ viewerX \in 0..WORLD_WIDTH)
        => /\ (renderX - x) % WORLD_WIDTH = 0
           /\ Abs(renderX - viewerX) * 2 <= WORLD_WIDTH
           /\ renderX # x <=> Abs(x - viewerX) * 2 > WORLD_WIDTH
           /\ renderX # x
                => renderX = IF x > viewerX THEN x - WORLD_WIDTH ELSE x + WORLD_WIDTH
           /\ (x = 150 /\ viewerX = 9900) => renderX = 10150

\* a frame has drawn a ghost at 150 for a viewer at 9900, beyond the seam
C15_Witness ==
  /\ lastEvent.type = "frame"
  /\ ghost.drawn.state.x = 150
  /\ ghost.drawn.localPlayerX = 9900
  /\ ghost.drawn.renderX = 10150

\* C16: every x brought into the ring lies in [0, W), whatever the input:
\* the ghost's interpolated x, and the terrain's normalizedX for inputs that
\* are negative, multiples of W or several circumferences away.
C16_CanonicalXInRing ==
  /\ ghost.drawn.state.x \in 0..(WORLD_WIDTH - 1)
  /\ \A k \in -2..2, x \in RingSamples \cup {-30} :
       normalizedX(x + k * WORLD_WIDTH) \in 0..(WORLD_WIDTH - 1)

\* C17: for a source x and a target x in [0, W), the distance update()
\* interpolates over (targetX - currentX after the seam adjustment) lies in
\* (-W/2, W/2] and leads from the source to the target's point of the ring,
\* also when the two are exactly W/2 apart.
C17_SeamDeltaInHalfOpenInterval ==
  (/\ ghost.currentState.x \in 0..(WORLD_WIDTH - 1)
   /\ ghost.targetState.x \in 0..(WORLD_WIDTH - 1))
    => /\ ghost.span * 2 > 0 - WORLD_WIDTH
       /\ ghost.span * 2 <= WORLD_WIDTH
       /\ SameRingPoint(ghost.currentState.x + ghost.span, ghost.targetState.x)

\* C27: the ghost's interpolation clock is the frame time rendered since its
\* latest snapshot (each frame adds its delta once, the arrival of a players
\* message adds nothing), and the blend factor of the last update() is that
\* time over the duration, capped at 1.
C27_ClockIsElapsedRenderTime ==
  /\ ghost.interpolationTime = elapsed
  /\ ghost.t = IF elapsed < interpolationDuration THEN elapsed
                                                   ELSE interpolationDuration

(***************************************************************************)
(* Properties of the seam tests, checked under SeamSpec.                   *)
(***************************************************************************)
\* C18: for every pair of positions in [0, W], the ghost interpolation test,
\* the ghost render test, the camera test and the lap-timer test give the
\* same answer to "do the two lie across the seam", also when the two are
\* exactly W/2 apart.
C18_SeamTestsAgree ==
  seam.tests # <<>>
    => /\ seam.tests.interpolation = seam.tests.render
       /\ seam.tests.render = seam.tests.camera
       /\ seam.tests.camera = seam.tests.lap

(***************************************************************************)
(* Properties of the vehicle, checked under VehicleSpec.                   *)
(***************************************************************************)
\* C19: after the per-frame wrapPosition() the chassis x lies in [0, W),
\* whatever the physics step has produced, and so does the x of every
\* snapshot that getState() supplies for sending.
C19_WrappedXInRing ==
  lastEvent.type = "sceneUpdate"
    => /\ scene.vehicle.chassis.x \in 0..(WORLD_WIDTH - 1)
       /\ scene.sent # <<>> => scene.sent[1].x \in 0..(WORLD_WIDTH - 1)

VehicleBodies == {"chassis", "frontWheel", "rearWheel"}

\* C20: in one call of wrapPosition() the three bodies move by one and the
\* same offset, which is 0, +W or -W, so each wheel keeps its distance from
\* the chassis; no body changes its y, its angle or its velocity; and with
\* the chassis x inside the ring the offset is 0.
C20_WrapMovesAllBodiesAlike ==
  [][ lastEvent'.type = "sceneUpdate"
        => LET offset == scene'.vehicle.chassis.x - scene.vehicle.chassis.x
           IN  /\ offset \in {0, WORLD_WIDTH, 0 - WORLD_WIDTH}
               /\ \A b \in VehicleBodies :
                    scene'.vehicle[b] = [scene.vehicle[b] EXCEPT !.x = @ + offset]
               /\ scene.vehicle.chassis.x > WORLD_WIDTH => offset = 0 - WORLD_WIDTH
               /\ scene.vehicle.chassis.x < 0 => offset = WORLD_WIDTH
               /\ scene.vehicle.chassis.x \in 0..(WORLD_WIDTH - 1) => offset = 0
    ]_vars

\* the vehicle has backed over the seam with its suspension stretched and was
\* wrapped: chassis at 9950, the wheels still 38 before and 42 behind it, in
\* motion and tilted
C20_Witness ==
  /\ lastEvent.type = "sceneUpdate"
  /\ scene.wrapped
  /\ scene.vehicle.chassis.x = 9950
  /\ scene.vehicle.frontWheel.x = 9988
  /\ scene.vehicle.rearWheel.x = 9908
  /\ scene.vehicle.chassis.vx = -50
  /\ scene.vehicle.chassis.angle = 10

(***************************************************************************)
(* Properties of the lap timer, checked under LapSpec.                     *)
(***************************************************************************)
\* C25: a lap is recorded only at the end of one full forward circuit: when
\* a crossing is counted, the vehicle has driven forward, since the spawn,
\* the last reset or the last counted lap, the length of the ring less at
\* most one frame's movement; backing up over the line and over the seam
\* and returning does not amount to that.
C25_LapIsFullCircuit ==
  lastEvent.type = "update" /\ lastEvent.counted
    => lastEvent.travelled >= WORLD_WIDTH - MoveStep

\* the smallest element of a non-empty sequence of numbers
SeqMin(seq) == CHOOSE m \in {seq[k] : k \in DOMAIN seq} :
                 \A k \in DOMAIN seq : m <= seq[k]

\* C26: bestLapTime is null until the first counted crossing and afterwards
\* the minimum of all lap times recorded so far, so it never increases; a
\* frame in which the vehicle is reset leaves the lap timer restarted at the
\* frame's time, hasPassedCheckpoint cleared and lastCrossX at the spawn x,
\* records no time and leaves bestLapTime alone; and a frame in which the
\* vehicle jumps across the seam counts no crossing.
C26_BestLapIsMinimum ==
  /\ [](scene.bestLapTime =
          IF scene.lapTimes = <<>> THEN Null ELSE SeqMin(scene.lapTimes))
  /\ [][ lastEvent'.type = "update"
           => /\ scene.bestLapTime # Null
                   => scene'.bestLapTime # Null
                        /\ scene'.bestLapTime <= scene.bestLapTime
              /\ lastEvent'.reset
                   => /\ scene'.lapStartTime = scene'.time
                      /\ ~scene'.hasPassedCheckpoint
                      /\ scene'.lastCrossX = getSpawnPosition.x
                      /\ scene'.lapTimes = scene.lapTimes
                      /\ scene'.bestLapTime = scene.bestLapTime
              /\ lastEvent'.jumped /\ ~lastEvent'.reset
                   => /\ scene'.lapTimes = scene.lapTimes
                      /\ scene'.bestLapTime = scene.bestLapTime
     ]_vars

\* two laps have been recorded, the second one slower than the first, and
\* the vehicle has just been reset to the spawn position and the lap timer
\* restarted: the best time is still that of the first lap
C26_Witness ==
  /\ lastEvent.type = "update"
  /\ lastEvent.reset
  /\ lastEvent.travelled = 0
  /\ scene.vehicle.chassis.x = getSpawnPosition.x
  /\ scene.vehicle.chassis.vx = 0
  /\ Len(scene.lapTimes) = 2
  /\ scene.lapTimes[2] > scene.lapTimes[1]
  /\ scene.bestLapTime = scene.lapTimes[1]
  /\ scene.lapStartTime = scene.time

(***************************************************************************)
(* Properties of the terrain, checked under TerrainSpec.                   *)
(***************************************************************************)
\* C21: for every seed the profile has its samples at x = 0, 40, ..., W, the
\* last one exactly at W, and the last sample has the height of the first.
C21_ProfileClosesAtW ==
  /\ \A k \in DOMAIN terrain.points : terrain.points[k].x = (k - 1) * 40
  /\ terrain.points[1].x = 0
  /\ terrain.points[Len(terrain.points)].x = WORLD_WIDTH
  /\ terrain.points[Len(terrain.points)].y = terrain.points[1].y

\* the terrain of the shared seed, probed at W: 251 samples, hills that leave the base
\* height in between, the sample before the last one not at the height of
\* the first
C21_Witness ==
  /\ lastEvent.type = "probe"
  /\ terrain.under[1].x = WORLD_WIDTH
  /\ terrain.seed = TERRAIN_SEED
  /\ Len(terrain.points) = 251
  /\ \E k \in DOMAIN terrain.points : terrain.points[k].y > terrain.points[1].y + 20
  /\ terrain.points[250].y # terrain.points[1].y
  /\ terrain.points[251] = [x |-> 10000, y |-> 450]

\* the segments built from consecutive samples, before any copy
MainSegments == SubSeq(terrain.segments, 1, Len(terrain.points) - 1)

HasCopyAt(seg, offsetX) ==
  \E k \in DOMAIN terrain.segments :
    terrain.segments[k] = [seg EXCEPT !.midX = @ + offsetX]

\* C23: every segment whose left sample is within 800 of W has a copy W to
\* the left, and every segment whose left sample is within 800 of 0 has a
\* copy W to the right, of the same height, length and slope; and every x
\* from -800 to W + 800 at which the engine looks for ground has a segment
\* above or below it.
C23_GroundAcrossBothSeams ==
  /\ \A i \in DOMAIN MainSegments :
       LET seg == MainSegments[i]
           left == seg.midX - seg.run \div 2
       IN  /\ WORLD_WIDTH - left <= 800 => HasCopyAt(seg, 0 - WORLD_WIDTH)
           /\ left <= 800 => HasCopyAt(seg, WORLD_WIDTH)
  /\ \A k \in DOMAIN terrain.under :
       terrain.under[k].x \in (0 - 800)..(WORLD_WIDTH + 800)
         => terrain.under[k].segments # {}

\* the engine has looked for ground 800 left of the seam and found the copy
\* of a hill segment, and nothing else
C23_Witness ==
  /\ lastEvent.type = "probe"
  /\ terrain.under # <<>>
  /\ terrain.under[1].x = 0 - 800
  /\ \E k \in DOMAIN terrain.segments :
       /\ terrain.under[1].segments = {k}
       /\ k > Len(terrain.points) - 1
       /\ terrain.segments[k].rise # 0

(***************************************************************************)
(* Properties of the clients' ghost sets and vehicles, checked under       *)
(* NetSpec.                                                                *)
(***************************************************************************)
\* the ids listed by a players message
Listed(m) == {m.players[k].id : k \in DOMAIN m.players}

\* C24: no message from the server changes the physics state of a client's
\* own vehicle: the state changes only in a step of the client's own
\* simulation, and a players message that lists the client's own id with
\* the server's copy of its state leaves the vehicle as it was.
C24_InboundLeavesVehicle ==
  [][ \A c \in SocketSet :
        /\ lastEvent'.type = "receive" => client'[c].vehicle = client[c].vehicle
        /\ client'[c].vehicle # client[c].vehicle
             => lastEvent'.type = "message" /\ lastEvent'.id = c
    ]_vars

\* client s1 has driven away from the spawn position and has just processed
\* a players message that lists s1 with a state other than its vehicle's
C24_Witness ==
  /\ lastEvent.type = "receive"
  /\ lastEvent.id = "s1"
  /\ lastEvent.msg.type = "players"
  /\ client["s1"].playerId = "s1"
  /\ client["s1"].vehicle # SpawnState
  /\ \E k \in DOMAIN lastEvent.msg.players :
       /\ lastEvent.msg.players[k].id = "s1"
       /\ lastEvent.msg.players[k].y # client["s1"].vehicle.y

\* C28: a client never holds a ghost for its own id: neither for the id of
\* its socket nor for the id its welcome gave it, in whatever order the
\* messages of the server reach it.
C28_NoGhostOfSelf ==
  \A c \in SocketSet :
    /\ c \notin client[c].ghostVehicles
    /\ client[c].playerId \notin client[c].ghostVehicles

\* client s1 has just processed a players message that lists s1 itself and
\* s2, and holds a ghost for s2
C28_Witness ==
  /\ lastEvent.type = "receive"
  /\ lastEvent.id = "s1"
  /\ lastEvent.msg.type = "players"
  /\ Listed(lastEvent.msg) = {"s1", "s2"}
  /\ client["s1"].playerId = "s1"
  /\ client["s1"].ghostVehicles = {"s2"}

\* C29: on each client a ghost for id i appears only when a players message
\* listing i is processed and disappears only when playerLeft{i} is; once
\* the client has processed playerLeft{i} it holds no ghost for i, then or
\* ever after.
C29_GhostSetTracksRegistry ==
  /\ [](\A c \in SocketSet : client[c].left \cap client[c].ghostVehicles = {})
  /\ [][ \A c \in SocketSet :
           /\ client'[c].ghostVehicles \ client[c].ghostVehicles # {}
                => /\ lastEvent' = [type |-> "receive", id |-> c, msg |-> Head(chan[c])]
                   /\ Head(chan[c]).type = "players"
                   /\ client'[c].ghostVehicles \ client[c].ghostVehicles
                        \subseteq Listed(Head(chan[c]))
           /\ client[c].ghostVehicles \ client'[c].ghostVehicles # {}
                => /\ lastEvent' = [type |-> "receive", id |-> c, msg |-> Head(chan[c])]
                   /\ Head(chan[c]).type = "playerLeft"
                   /\ client[c].ghostVehicles \ client'[c].ghostVehicles
                        = {Head(chan[c]).id}
     ]_vars

\* client s1 had a ghost for s2, processed playerLeft{s2}, and has now
\* processed a later players message without a ghost for s2 coming back
C29_Witness ==
  /\ lastEvent.type = "receive"
  /\ lastEvent.id = "s1"
  /\ lastEvent.msg.type = "players"
  /\ "s2" \in client["s1"].created
  /\ "s2" \in client["s1"].left
  /\ client["s1"].ghostVehicles = {}

\* C30: for each connection id the server emits at most one playerLeft
\* message, whatever the order of the sweep and the disconnect event.
C30_AtMostOneLeave ==
  \A i \in SocketSet : leaves[i] <= 1

(***************************************************************************)
(* Properties of the handshake, checked under NetSpec.                     *)
(***************************************************************************)
\* the position of socket id i in the order of connection
ConnectionIndex(i) == CHOOSE k \in DOMAIN SocketIds : SocketIds[k] = i

\* C7: the connection handler creates the entry and emits one welcome, to
\* the new connection only, with the id, the terrain seed and the colour
\* stored by addPlayer; the client's welcome handler receives these three
\* values; and the welcome reaches the client before any players message
\* that lists its id.
C7_WelcomeCarriesIdSeedColor ==
  /\ lastEvent.type = "connection"
       => /\ MapHas(players, lastEvent.id)
          /\ Cardinality(EmittedOfType("welcome")) = 1
          /\ emitted[1] =
               [to |-> {lastEvent.id},
                msg |-> [type |-> "welcome", id |-> lastEvent.id,
                         terrainSeed |-> TERRAIN_SEED,
                         color |-> getPlayer(players, lastEvent.id).state.color]]
  /\ lastEvent.type # "connection" => EmittedOfType("welcome") = {}
  /\ \A c \in NetSockets :
       client[c].welcome # <<>>
         => client[c].welcome[1] =
              [id |-> c, terrainSeed |-> TERRAIN_SEED,
               color |-> assigned[ConnectionIndex(c)]]
  /\ \A c \in NetSockets : \A k \in DOMAIN chan[c] :
       (/\ chan[c][k].type = "players"
        /\ \E j \in DOMAIN chan[c][k].players : chan[c][k].players[j].id = c)
         => \/ client[c].playerId = c
            \/ \E j \in 1..(k - 1) : chan[c][j].type = "welcome"

====
